---- MODULE Spec2Model ----
(***************************************************************************)
(* CompressionMCPClient (src/compression_mcp_client.py) as a state machine.*)
(*                                                                         *)
(* The facade holds two fields, connected and mock_mode.  A caller is      *)
(* either idle or holds the outcome of the call it just made; every        *)
(* coroutine of the client runs without an inner await, so a call is one   *)
(* atomic step.                                                            *)
(*                                                                         *)
(* Representation.                                                         *)
(*   - A Python str is a sequence of one-character strings.                *)
(*   - A message is a record; its content field, when present, names an    *)
(*     entry of the table Text (strings are interned by name).             *)
(*   - A Python float that is a multiple of 0.1 is held as an integer      *)
(*     number of tenths (fields ending in _x10); the quotient of two       *)
(*     lengths is held as the pair num/den.                                *)
(*   - datetime.now() is a choice from Timestamps.                         *)
(***************************************************************************)
EXTENDS Integers, Sequences, FiniteSets, TLC

VARIABLES connected, mock_mode, pc, call, ret, stats_log

vars == <<connected, mock_mode, pc, call, ret, stats_log>>

(* ---------------------------- bounds ---------------------------------- *)

MaxText == 6
MaxHead == 2
MaxPad == 10
MaxClock == 2
MaxLog == 2

(* ----------------------- program constants ---------------------------- *)

KeepLast == 10
LongMessage == 500
SavingsFactor_x10 == 5
TokenFactor_x10 == 13
PreviewLen == 100
MaxKeyPoints == 5
MaxDecisions == 3
ConversationRatio_x10 == 1

(* -------------------------- str helpers ------------------------------- *)

Min(a, b) == IF a < b THEN a ELSE b

Max(a, b) == IF a > b THEN a ELSE b

Rep(s, n) == [i \in 1..(n * Len(s)) |-> s[((i - 1) % Len(s)) + 1]]

LowerCase ==
  "A" :> "a" @@ "B" :> "b" @@ "C" :> "c" @@ "D" :> "d" @@ "E" :> "e" @@
  "F" :> "f" @@ "G" :> "g" @@ "H" :> "h" @@ "I" :> "i" @@ "J" :> "j" @@
  "K" :> "k" @@ "L" :> "l" @@ "M" :> "m" @@ "N" :> "n" @@ "O" :> "o" @@
  "P" :> "p" @@ "Q" :> "q" @@ "R" :> "r" @@ "S" :> "s" @@ "T" :> "t" @@
  "U" :> "u" @@ "V" :> "v" @@ "W" :> "w" @@ "X" :> "x" @@ "Y" :> "y" @@
  "Z" :> "z"

\* str.lower()
Lower(s) == [i \in 1..Len(s) |-> IF s[i] \in DOMAIN LowerCase THEN LowerCase[s[i]] ELSE s[i]]

\* `kw in s`
Contains(s, kw) == \E i \in 1..(Len(s) - Len(kw) + 1) : SubSeq(s, i, i + Len(kw) - 1) = kw

\* len(s.split()): the number of maximal runs of non-blank characters
WordCount(s) == Cardinality({i \in 1..Len(s) : s[i] # " " /\ (i = 1 \/ s[i - 1] = " ")})

\* s[:n]
Prefix(s, n) == SubSeq(s, 1, Min(n, Len(s)))

\* str.find('. ') as a 1-based position, 0 when absent
FindSep(s) ==
  LET hits == {i \in 1..(Len(s) - 1) : s[i] = "." /\ s[i + 1] = " "}
  IN IF hits = {} THEN 0 ELSE CHOOSE i \in hits : \A j \in hits : i <= j

RECURSIVE Split(_)
\* s.split('. ')
Split(s) ==
  LET i == FindSep(s)
  IN IF i = 0 THEN <<s>>
     ELSE <<SubSeq(s, 1, i - 1)>> \o Split(SubSeq(s, i + 2, Len(s)))

RECURSIVE Join(_)
\* '. '.join(parts)
Join(parts) ==
  IF Len(parts) = 0 THEN <<>>
  ELSE IF Len(parts) = 1 THEN parts[1]
  ELSE parts[1] \o <<".", " ">> \o Join(Tail(parts))

DigitChar == <<"0", "1", "2", "3", "4", "5", "6", "7", "8", "9">>

RECURSIVE Str(_)
\* str(n) of a non-negative int, as the f-string formats it
Str(n) == IF n < 10 THEN <<DigitChar[n + 1]>> ELSE Str(n \div 10) \o <<DigitChar[(n % 10) + 1]>>

(* ----------------------------- inputs --------------------------------- *)

Filler == Rep(<<"a", "b", " ">>, 167)

\* Message texts, by name: short ones, one of exactly LongMessage
\* characters, and one longer than that whose keyword lies past the preview.
Text ==
  [ok      |-> <<"o", "k">>,
   decided |-> <<"W", "e", " ", "D", "E", "C", "I", "D", "E", "D", " ", "t", "o", " ", "u", "s", "e", " ", "X">>,
   build   |-> <<"I", "'", "l", "l", " ", "h", "e", "l", "p", " ", "y", "o", "u", " ", "b", "u", "i", "l", "d", " ", "i", "t", " ", "s", "t", "e", "p", " ", "b", "y", " ", "s", "t", "e", "p">>,
   both    |-> <<"D", "e", "c", "i", "s", "i", "o", "n", ":", " ", "c", "r", "e", "a", "t", "e", " ", "t", "h", "e", " ", "i", "n", "d", "e", "x">>,
   edge    |-> SubSeq(Filler, 1, LongMessage),
   long    |-> Filler \o <<"i", "m", "p", "l", "e", "m", "e", "n", "t">>]

\* A message is a dict with a role and, unless malformed, a content.
Messages == {[role |-> "user", content |-> c] : c \in DOMAIN Text} \cup {[role |-> "user"]}

PadMessages == {[role |-> "user", content |-> c] : c \in {"long", "both"}}

RECURSIVE SeqsUpTo(_, _)
\* the sequences over S of length at most n
SeqsUpTo(S, n) ==
  IF n = 0 THEN {<<>>}
  ELSE LET shorter == SeqsUpTo(S, n - 1)
       IN shorter \cup {Append(s, x) : s \in shorter, x \in S}

RECURSIVE Run(_, _)
\* k copies of m
Run(m, k) == IF k = 0 THEN <<>> ELSE Append(Run(m, k - 1), m)

Heads == SeqsUpTo(Messages, MaxHead)

Pads == {Run(m, k) : k \in 0..MaxPad, m \in PadMessages}

\* Conversations: a free head followed by a run of equal messages.
Conversations == {h \o p : h \in Heads, p \in Pads}

Alphabet == {"a", ".", " "}

Texts == SeqsUpTo(Alphabet, MaxText)

\* ratio, threshold: floats, in tenths
Ratios_x10 == {0, 3, 10, 15}

Thresholds_x10 == {3, 7}

MaxTokensValues == {20, 1000}

Timestamps == 1..MaxClock

(* ------------------------ outcomes of a call -------------------------- *)

\* Python's None, what a coroutine that falls off its end returns
None == [py |-> "None"]

\* Python's True, as a returned value
True == [py |-> "True"]

NoCall == [op |-> "none"]

NoResult == [kind |-> "none"]

Returned(v) == [kind |-> "return", value |-> v]

Raised(e) == [kind |-> "raise", exc |-> e]

(* --------------------------- compress_text ---------------------------- *)

\* sentences[:max(1, len(sentences)//2)]
Retained(sentences) == SubSeq(sentences, 1, Max(1, Len(sentences) \div 2))

\* The mock branch of compress_text.  word_count and target_words are
\* computed from ratio and never read, so ratio does not reach the result;
\* len(compressed) / len(text) raises ZeroDivisionError on the empty text.
MockCompressText(text, ratio_x10, ts) ==
  LET sentences == Split(text)
      compressed == Join(Retained(sentences)) \o <<".">>
  IN IF Len(text) = 0 THEN Raised("ZeroDivisionError")
     ELSE Returned([compressed_text   |-> compressed,
                    original_length   |-> Len(text),
                    compressed_length |-> Len(compressed),
                    compression_ratio |-> [num |-> Len(compressed), den |-> Len(text)],
                    timestamp         |-> ts])

CompressTextResult(mock, text, ratio_x10, ts) ==
  IF mock THEN MockCompressText(text, ratio_x10, ts) ELSE Returned(None)

(* --------------------- get_compression_suggestions -------------------- *)

\* What the client reads off one content string.
Measure(s) ==
  [len       |-> Len(s),
   words     |-> WordCount(s),
   decision  |-> Contains(Lower(s), <<"d", "e", "c", "i", "s", "i", "o", "n">>)
                 \/ Contains(Lower(s), <<"d", "e", "c", "i", "d", "e", "d">>),
   key_point |-> \E word \in {<<"i", "m", "p", "l", "e", "m", "e", "n", "t">>,
                              <<"b", "u", "i", "l", "d">>,
                              <<"c", "r", "e", "a", "t", "e">>} : Contains(Lower(s), word),
   preview   |-> Prefix(s, PreviewLen) \o <<".", ".", ".">>]

\* Measure, tabulated once per interned text.
Measured ==
  "ok" :> Measure(Text.ok) @@ "decided" :> Measure(Text.decided) @@
  "build" :> Measure(Text.build) @@ "both" :> Measure(Text.both) @@
  "edge" :> Measure(Text.edge) @@ "long" :> Measure(Text.long)

Empty == Measure(<<>>)

\* Measure(msg.get('content', ''))
M(msg) == IF "content" \in DOMAIN msg THEN Measured[msg.content] ELSE Empty

RECURSIVE TotalWords(_)
TotalWords(conversation) ==
  IF Len(conversation) = 0 THEN 0
  ELSE M(Head(conversation)).words + TotalWords(Tail(conversation))

RECURSIVE TokensPerMessage(_)
\* each message's share truncated on its own, then added
TokensPerMessage(conversation) ==
  IF Len(conversation) = 0 THEN 0
  ELSE ((TokenFactor_x10 * M(Head(conversation)).words) \div 10)
       + TokensPerMessage(Tail(conversation))

\* variant of TotalTokens: int() applied to every term instead of to the sum
TotalTokens_truncating_terms(conversation) == {TokensPerMessage(conversation)}

\* int(sum(len(content.split()) * 1.3 ...)).  The terms and their sum are
\* binary floats.  A term whose exact value is whole is exact, and so is a
\* sum of such terms; otherwise the sum carries a rounding error far below
\* the distance to the next whole number unless the exact sum is itself
\* whole, where the error (it depends on the order of the terms and on
\* how the interpreter's sum() accumulates) decides between that number
\* and the one below.
TotalTokens(conversation) ==
  LET words == TotalWords(conversation)
      exact == (TokenFactor_x10 * words) \div 10
      whole_terms == \A i \in 1..Len(conversation) :
                       (TokenFactor_x10 * M(conversation[i]).words) % 10 = 0
  IN IF (TokenFactor_x10 * words) % 10 = 0 /\ ~whole_terms
     THEN {exact - 1, exact}
     ELSE {exact}

\* variant of Unprotected: the slice dropped, every message scanned
Unprotected_whole(conversation) == conversation

\* conversation[:-10]
Unprotected(conversation) == SubSeq(conversation, 1, Len(conversation) - KeepLast)

RECURSIVE SuggestionsFrom(_, _)
\* the enumerate loop, from 0-based index i on
SuggestionsFrom(scanned, i) ==
  IF i >= Len(scanned) THEN <<>>
  ELSE (IF M(scanned[i + 1]).len > LongMessage
        THEN <<[message_index        |-> i,
                reason               |-> "Long message",
                potential_savings_x10 |-> M(scanned[i + 1]).len * SavingsFactor_x10]>>
        ELSE <<>>) \o SuggestionsFrom(scanned, i + 1)

RECURSIVE SumSavings(_)
SumSavings(suggestions) ==
  IF Len(suggestions) = 0 THEN 0
  ELSE Head(suggestions).potential_savings_x10 + SumSavings(Tail(suggestions))

MockSuggestions(conversation, threshold_x10, total_tokens, ts) ==
  LET suggestions == SuggestionsFrom(Unprotected(conversation), 0)
  IN Returned([total_tokens          |-> total_tokens,
               suggestions           |-> suggestions,
               estimated_savings_x10 |-> SumSavings(suggestions),
               timestamp             |-> ts])

SuggestionsResult(mock, conversation, threshold_x10, total_tokens, ts) ==
  IF mock THEN MockSuggestions(conversation, threshold_x10, total_tokens, ts)
  ELSE Returned(None)

(* ------------------------ compress_conversation ----------------------- *)

RECURSIVE Extract(_, _)
\* the extraction loop; which is "decision" or "key_point"
Extract(messages, which) ==
  IF Len(messages) = 0 THEN <<>>
  ELSE (IF M(Head(messages))[which] THEN <<M(Head(messages)).preview>> ELSE <<>>)
       \o Extract(Tail(messages), which)

\* variant of KeyPointsSlice: the last entries kept instead of the first
KeyPointsSlice_last(key_points) ==
  SubSeq(key_points, Max(1, Len(key_points) - MaxKeyPoints + 1), Len(key_points))

\* key_points[:5]
KeyPointsSlice(key_points) == SubSeq(key_points, 1, Min(MaxKeyPoints, Len(key_points)))

\* decisions[:3]
DecisionsSlice(decisions) == SubSeq(decisions, 1, Min(MaxDecisions, Len(decisions)))

\* f"Conversation with {len(messages)} messages"
SummaryText(n) ==
  <<"C", "o", "n", "v", "e", "r", "s", "a", "t", "i", "o", "n", " ", "w", "i", "t", "h", " ">>
  \o Str(n) \o <<" ", "m", "e", "s", "s", "a", "g", "e", "s">>

\* The mock branch; max_tokens is not read.
MockCompressConversation(messages, max_tokens, ts) ==
  Returned([summary             |-> SummaryText(Len(messages)),
            key_points          |-> KeyPointsSlice(Extract(messages, "key_point")),
            decisions           |-> DecisionsSlice(Extract(messages, "decision")),
            message_count       |-> Len(messages),
            compression_ratio_x10 |-> ConversationRatio_x10,
            timestamp           |-> ts])

CompressConversationResult(mock, messages, max_tokens, ts) ==
  IF mock THEN MockCompressConversation(messages, max_tokens, ts) ELSE Returned(None)

(* ------------------------------ actions ------------------------------- *)

\* __init__
FreshFacade == [connected |-> FALSE, mock_mode |-> TRUE]

Init ==
  /\ connected = FreshFacade.connected
  /\ mock_mode = FreshFacade.mock_mode
  /\ pc = "idle"
  /\ call = NoCall
  /\ ret = NoResult
  /\ stats_log = <<>>

\* variant of connect: a successful connect leaves mock mode
connect_leaving_mock ==
  /\ pc = "idle"
  /\ connected' = TRUE
  /\ mock_mode' = FALSE
  /\ pc' = "returned"
  /\ call' = [op |-> "connect"]
  /\ ret' = Returned(True)
  /\ stats_log' = <<>>

\* connect(): the try body cannot raise, so the except branch is dead.
connect ==
  /\ pc = "idle"
  /\ connected' = TRUE
  /\ mock_mode' = mock_mode
  /\ pc' = "returned"
  /\ call' = [op |-> "connect"]
  /\ ret' = Returned(True)
  /\ stats_log' = <<>>

compress_text ==
  /\ pc = "idle"
  /\ \E text \in Texts, ratio_x10 \in Ratios_x10, ts \in Timestamps :
       /\ call' = [op |-> "compress_text", text |-> text, ratio_x10 |-> ratio_x10]
       /\ ret' = CompressTextResult(mock_mode, text, ratio_x10, ts)
  /\ pc' = "returned"
  /\ UNCHANGED <<connected, mock_mode, stats_log>>

get_compression_suggestions ==
  /\ pc = "idle"
  /\ \E conversation \in Conversations, threshold_x10 \in Thresholds_x10, ts \in Timestamps :
       \E total_tokens \in TotalTokens(conversation) :
         /\ call' = [op |-> "get_compression_suggestions",
                     conversation |-> conversation, threshold_x10 |-> threshold_x10]
         /\ ret' = SuggestionsResult(mock_mode, conversation, threshold_x10, total_tokens, ts)
  /\ pc' = "returned"
  /\ UNCHANGED <<connected, mock_mode, stats_log>>

compress_conversation ==
  /\ pc = "idle"
  /\ \E messages \in Conversations, max_tokens \in MaxTokensValues, ts \in Timestamps :
       /\ call' = [op |-> "compress_conversation",
                   messages |-> messages, max_tokens |-> max_tokens]
       /\ ret' = CompressConversationResult(mock_mode, messages, max_tokens, ts)
  /\ pc' = "returned"
  /\ UNCHANGED <<connected, mock_mode, stats_log>>

\* variant of get_stats: the facade connects itself once it has been asked
get_stats_connecting ==
  /\ pc = "idle"
  /\ \E ts \in Timestamps :
       ret' = Returned([connected |-> connected, mock_mode |-> mock_mode, timestamp |-> ts])
  /\ call' = [op |-> "get_stats"]
  /\ stats_log' = LET seen == Append(stats_log, [connected |-> connected, mock_mode |-> mock_mode])
                  IN IF Len(seen) > MaxLog THEN Tail(seen) ELSE seen
  /\ pc' = "returned"
  /\ connected' = TRUE
  /\ UNCHANGED mock_mode

\* stats_log keeps what the get_stats calls since the last connect()
\* returned (the last MaxLog of them).
get_stats ==
  /\ pc = "idle"
  /\ \E ts \in Timestamps :
       ret' = Returned([connected |-> connected, mock_mode |-> mock_mode, timestamp |-> ts])
  /\ call' = [op |-> "get_stats"]
  /\ stats_log' = LET seen == Append(stats_log, [connected |-> connected, mock_mode |-> mock_mode])
                  IN IF Len(seen) > MaxLog THEN Tail(seen) ELSE seen
  /\ pc' = "returned"
  /\ UNCHANGED <<connected, mock_mode>>

\* the caller takes the outcome and is free to call again
Resume ==
  /\ pc = "returned"
  /\ pc' = "idle"
  /\ call' = NoCall
  /\ ret' = NoResult
  /\ UNCHANGED <<connected, mock_mode, stats_log>>

Next ==
  \/ connect
  \/ compress_text
  \/ get_compression_suggestions
  \/ compress_conversation
  \/ get_stats
  \/ Resume

Spec == Init /\ [][Next]_vars

(* ------------------------------ claims -------------------------------- *)

ReturnedFrom(op) == pc = "returned" /\ call.op = op

HasValue == ret.kind = "return" /\ ret.value # None

WithoutTimestamp(r) == [f \in (DOMAIN r) \ {"timestamp"} |-> r[f]]

ValidRatio(ratio_x10) == ratio_x10 > 0 /\ ratio_x10 <= 10

\* C1: get_compression_suggestions never returns a suggestion whose
\* message_index (0-based) is among the last KeepLast = 10 messages, whatever
\* the length and the threshold; a conversation of at most KeepLast messages
\* yields no suggestion and estimated_savings = 0.
C1_ProtectedWindow ==
  (ReturnedFrom("get_compression_suggestions") /\ HasValue) =>
    LET n == Len(call.conversation)
        suggestions == ret.value.suggestions
    IN /\ \A j \in 1..Len(suggestions) :
            /\ suggestions[j].message_index >= 0
            /\ suggestions[j].message_index < n - KeepLast
       /\ n <= KeepLast =>
            suggestions = <<>> /\ ret.value.estimated_savings_x10 = 0

\* a suggestion was returned although a long message sits in the window
C1_Witness ==
  /\ ReturnedFrom("get_compression_suggestions") /\ HasValue
  /\ Len(ret.value.suggestions) > 0
  /\ LET n == Len(call.conversation)
     IN \E i \in (n - KeepLast + 1)..n : M(call.conversation[i]).len > LongMessage

Qualifying(messages, which) == {i \in 1..Len(messages) : M(messages[i])[which]}

\* the position of the j-th qualifying message
NthQualifying(messages, which, j) ==
  CHOOSE i \in Qualifying(messages, which) :
    Cardinality({k \in Qualifying(messages, which) : k < i}) = j - 1

FirstQualifying(snippets, messages, which, cap) ==
  /\ Len(snippets) = Min(cap, Cardinality(Qualifying(messages, which)))
  /\ \A j \in 1..Len(snippets) :
       snippets[j] = Prefix(Text[messages[NthQualifying(messages, which, j)].content], PreviewLen)
                     \o <<".", ".", ".">>

\* C2: for every message sequence and every max_tokens, compress_conversation
\* returns at most 5 key_points and at most 3 decisions, and they are the
\* snippets of the first qualifying messages in conversation order.
C2_Caps ==
  (ReturnedFrom("compress_conversation") /\ HasValue) =>
    /\ Len(ret.value.key_points) <= 5
    /\ Len(ret.value.decisions) <= 3
    /\ FirstQualifying(ret.value.key_points, call.messages, "key_point", 5)
    /\ FirstQualifying(ret.value.decisions, call.messages, "decision", 3)

\* both caps cut, and the first key point is not the first message
C2_Witness ==
  /\ ReturnedFrom("compress_conversation") /\ HasValue
  /\ Cardinality(Qualifying(call.messages, "key_point")) > 5
  /\ Cardinality(Qualifying(call.messages, "decision")) > 3
  /\ 1 \notin Qualifying(call.messages, "key_point")

\* C3: compress_text with a ratio outside (0,1] (ratio <= 0 or ratio > 1)
\* is rejected with InvalidArgument and returns no CompressionResult.
\* Stated for the non-empty texts, where no other failure interferes.
C3_RatioRejected ==
  (ReturnedFrom("compress_text") /\ Len(call.text) > 0 /\ ~ValidRatio(call.ratio_x10)) =>
    ret = Raised("InvalidArgument")

\* C4: for a non-empty text and a ratio in (0,1], compress_text in fallback
\* mode returns an achieved ratio with 0 < ratio <= 1.
C4_RatioInUnitInterval ==
  (ReturnedFrom("compress_text") /\ mock_mode /\ Len(call.text) > 0
     /\ ValidRatio(call.ratio_x10)) =>
    /\ HasValue
    /\ 0 < ret.value.compression_ratio.num
    /\ ret.value.compression_ratio.num <= ret.value.compression_ratio.den

\* C5: compress_text on the empty text with a valid ratio does not fail and
\* returns a result whose achieved ratio is 1.0.
C5_EmptyText ==
  (ReturnedFrom("compress_text") /\ Len(call.text) = 0 /\ ValidRatio(call.ratio_x10)) =>
    /\ HasValue
    /\ ret.value.compression_ratio.num = ret.value.compression_ratio.den

\* the Token Estimator on one string: int(word count * 1.3)
Estimate(s) == (TokenFactor_x10 * WordCount(s)) \div 10

RECURSIVE EstimateAll(_)
EstimateAll(snippets) ==
  IF Len(snippets) = 0 THEN 0 ELSE Estimate(Head(snippets)) + EstimateAll(Tail(snippets))

SummaryTokens(summary) ==
  Estimate(summary.summary) + EstimateAll(summary.key_points) + EstimateAll(summary.decisions)

\* C6: every result of compress_conversation either has an estimated token
\* count of at most max_tokens (key points having been dropped to get
\* there) or carries an overflow report; decisions are never dropped.
C6_WithinBudget ==
  (ReturnedFrom("compress_conversation") /\ HasValue) =>
    /\ \/ SummaryTokens(ret.value) <= call.max_tokens
       \/ "overflow" \in DOMAIN ret.value
    /\ FirstQualifying(ret.value.decisions, call.messages, "decision", 3)

\* the units of the compressed text: it is the retained units joined,
\* followed by the terminator
UnitsKept(compressed) == Len(Split(SubSeq(compressed, 1, Len(compressed) - 1)))

\* C7: in fallback mode compress_text retains a leading fraction of the
\* sentence units proportional to ratio: of n units it keeps n * ratio up to
\* one unit of granularity (and at least one).
C7_ProportionalToRatio ==
  (ReturnedFrom("compress_text") /\ mock_mode /\ HasValue /\ ValidRatio(call.ratio_x10)) =>
    LET n == Len(Split(call.text))
        k == UnitsKept(ret.value.compressed_text)
    IN \/ k = 1 /\ n * call.ratio_x10 < 10
       \/ 10 * k > n * call.ratio_x10 - 10 /\ 10 * k < n * call.ratio_x10 + 10

\* C8: connected and mock_mode are written only by connect(); every other
\* operation leaves both unchanged, so the get_stats() calls made with no
\* connect() between them return the same connected and mock_mode.
C8_OnlyConnectWrites ==
  [][ /\ (connected' # connected \/ mock_mode' # mock_mode) =>
           (pc = "idle" /\ call'.op = "connect")
      /\ \A i, j \in DOMAIN stats_log' : stats_log'[i] = stats_log'[j] ]_vars

\* a second get_stats() since the last connect() has returned
C8_Witness ==
  /\ ReturnedFrom("get_stats")
  /\ connected
  /\ Len(stats_log) >= 2

\* what a facade on which connect() was never invoked may answer
FreshOutcomes(c) ==
  IF c.op = "compress_text"
  THEN {CompressTextResult(FreshFacade.mock_mode, c.text, c.ratio_x10, 0)}
  ELSE IF c.op = "compress_conversation"
  THEN {CompressConversationResult(FreshFacade.mock_mode, c.messages, c.max_tokens, 0)}
  ELSE {SuggestionsResult(FreshFacade.mock_mode, c.conversation, c.threshold_x10, t, 0) :
          t \in TotalTokens(c.conversation)}

SameOutcome(a, b) ==
  /\ a.kind = b.kind
  /\ a.kind = "raise" => a = b
  /\ a.kind = "return" => WithoutTimestamp(a.value) = WithoutTimestamp(b.value)

\* C9: at any point of any sequence of connect() and operation calls a
\* compression operation answers as a never-connected facade answers the
\* same arguments (timestamp apart) and never falls through without a
\* result; connect() returns True without raising and leaves the facade in
\* fallback (mock) mode.
C9_ConnectIndependent ==
  /\ mock_mode = FreshFacade.mock_mode
  /\ ReturnedFrom("connect") => ret = Returned(True)
  /\ (pc = "returned"
        /\ call.op \in {"compress_text", "get_compression_suggestions", "compress_conversation"}) =>
       /\ ret # Returned(None)
       /\ \E fresh \in FreshOutcomes(call) : SameOutcome(ret, fresh)

\* a compression operation has answered on a connected facade
C9_Witness ==
  /\ connected
  /\ ReturnedFrom("compress_conversation")
  /\ HasValue
  /\ Len(ret.value.key_points) > 0

\* C10 as stated: total_tokens is the sum over all messages of the
\* per-message integer estimate int(word count * 1.3).
C10_SumOfEstimates ==
  (ReturnedFrom("get_compression_suggestions") /\ HasValue) =>
    ret.value.total_tokens = TokensPerMessage(call.conversation)

\* C10: total_tokens is the sum over all messages, protected ones included,
\* of word count * 1.3, truncated once after the summation: it is the whole
\* part of 1.3 * (total word count), or one less when float rounding leaves
\* a whole sum just short, and never below the sum of per-message estimates.
C10_TruncatedSum ==
  (ReturnedFrom("get_compression_suggestions") /\ HasValue) =>
    LET scaled == TokenFactor_x10 * TotalWords(call.conversation)
        total == ret.value.total_tokens
    IN /\ total <= scaled \div 10
       /\ total >= (scaled \div 10) - 1
       /\ scaled % 10 # 0 => total = scaled \div 10
       /\ total >= TokensPerMessage(call.conversation)

\* the fractions of several messages add up to whole tokens, in a
\* conversation longer than the protected window
C10_Witness ==
  /\ ReturnedFrom("get_compression_suggestions") /\ HasValue
  /\ Len(call.conversation) > KeepLast
  /\ ret.value.total_tokens > TokensPerMessage(call.conversation)

====
